---- MODULE Spec2Model ----
(***************************************************************************)
(* Product catalog of the monorepo example: the slugify helper of          *)
(* backend-server, the in-memory product collection of the products        *)
(* backend feature (data.ts) and its three Fastify routes (routes.ts), and *)
(* the formatPrice helper of the products frontend.                        *)
(*                                                                         *)
(* A JavaScript string is modelled as a sequence of one-character strings, *)
(* a JavaScript number as a record [nan, val], `undefined` as the record    *)
(* Undefined.                                                              *)
(***************************************************************************)
EXTENDS Integers, Sequences, FiniteSets, TLC

VARIABLES
    productsData,   \* the imported fixture products.json (data.ts:2)
    products,       \* the module-level collection `const products` (data.ts:15)
    reqs,           \* the requests the server has received, in arrival order
    slugText,       \* the string slugify is first called with (SlugSpec)
    slugs,          \* what the successive calls of slugify returned (SlugSpec)
    priceCents,     \* the number formatPrice is called with (PriceSpec)
    priced,         \* how the call of formatPrice ended (PriceSpec)
    page,           \* the page the browser shows and its React state (PageSpec)
    fetches,        \* the fetches the detail page issued, in order (PageSpec)
    script          \* the shell running verify-stable-builds.sh (ScriptSpec)

\* The variables of the calls of the two helpers, which no route touches.
helperVars == <<slugText, slugs, priceCents, priced>>

\* The variables of the server, which no helper touches.
serverVars == <<productsData, products, reqs>>

\* The variables of the browser, which neither the server nor a helper touches.
pageVars == <<page, fetches>>

vars ==
    <<productsData, products, reqs, slugText, slugs, priceCents, priced,
      page, fetches, script>>

----------------------------------------------------------------------------
(* Bounds of the model.                                                    *)

\* Largest number of products in a fixture.
MaxProducts == 2

\* Largest number of requests the server receives in one run of Spec.
MaxReqs == 2

\* Longest string slugify is called with in SlugSpec.
MaxSlugLen == 4

\* formatPrice is called with every integer from -MaxCents to MaxCents.
MaxCents == 120

----------------------------------------------------------------------------
(* Characters.                                                             *)

LowerLetters == {"a", "b"}
UpperLetters == {"A", "B"}
Digits == {"0", "1", "2", "3"}

\* A letter outside ASCII, which toLowerCase leaves alone and \w does not
\* match.
NonAsciiLetters == {"é"}

\* \s of a JavaScript regular expression, and the characters trim() strips.
Whitespace == {" ", "\t"}

\* \w of a JavaScript regular expression: [A-Za-z0-9_].
WordChars == LowerLetters \cup UpperLetters \cup Digits \cup {"_"}

\* String.prototype.toLowerCase on one character.
LowerChar(c) ==
    CASE c = "A" -> "a"
      [] c = "B" -> "b"
      [] c = "É" -> "é"
      [] OTHER -> c

\* The value of a decimal digit.
DigitVal(c) ==
    CASE c = "0" -> 0
      [] c = "1" -> 1
      [] c = "2" -> 2
      [] c = "3" -> 3
      [] OTHER -> 0

----------------------------------------------------------------------------
(* String operations used by slugify and parseInt.                         *)

\* text.toLowerCase()
toLowerCase(text) == [i \in DOMAIN text |-> LowerChar(text[i])]

RECURSIVE trimStart(_)
trimStart(text) ==
    IF text # <<>> /\ Head(text) \in Whitespace
    THEN trimStart(Tail(text))
    ELSE text

RECURSIVE trimEnd(_)
trimEnd(text) ==
    IF text # <<>> /\ text[Len(text)] \in Whitespace
    THEN trimEnd(SubSeq(text, 1, Len(text) - 1))
    ELSE text

\* text.trim()
trim(text) == trimEnd(trimStart(text))

\* Whether c matches the character class [^\w\s-].
IsSpecialChar(c) == c \notin (WordChars \cup Whitespace \cup {"-"})

\* text.replace(/[^\w\s-]/g, "-"): special characters replaced, not removed.
removeSpecialChars_toHyphen(text) ==
    [i \in DOMAIN text |-> IF IsSpecialChar(text[i]) THEN "-" ELSE text[i]]

\* text.replace(/[^\w\s-]/g, "")
removeSpecialChars(text) == SelectSeq(text, LAMBDA c : ~IsSpecialChar(c))

\* text with its longest prefix of characters of class removed.
RECURSIVE skipRun(_, _)
skipRun(text, class) ==
    IF text # <<>> /\ Head(text) \in class
    THEN skipRun(Tail(text), class)
    ELSE text

\* text.replace(/X+/g, "-") for a character class X: every maximal run of
\* characters of the class becomes one hyphen.
RECURSIVE replaceRuns(_, _)
replaceRuns(text, class) ==
    IF text = <<>> THEN <<>>
    ELSE IF Head(text) \in class
         THEN <<"-">> \o replaceRuns(skipRun(Tail(text), class), class)
         ELSE <<Head(text)>> \o replaceRuns(Tail(text), class)

\* A step that leaves the whitespace in.
spacesToHyphens_none(text) == text

\* text.replace(/\s+/g, "-")
spacesToHyphens(text) == replaceRuns(text, Whitespace)

\* text.replace(/-/g, "-"): without the +, every hyphen is replaced by itself.
collapseHyphens_noPlus(text) == replaceRuns(text, {})

\* text.replace(/-+/g, "-")
collapseHyphens(text) == replaceRuns(text, {"-"})

\* A slugify with hidden state, as a module-level /g regular expression
\* tested with RegExp.prototype.test would give it: after an odd number of
\* replies the special characters are left in.
slugify_stateful(text) ==
    IF Cardinality({i \in DOMAIN reqs : reqs[i].pc = "replied"}) % 2 = 0
    THEN collapseHyphens(spacesToHyphens(removeSpecialChars(trim(toLowerCase(text)))))
    ELSE collapseHyphens(spacesToHyphens(trim(toLowerCase(text))))

\* A slugify that collapses the hyphens before it turns spaces into hyphens.
slugify_collapseFirst(text) ==
    spacesToHyphens(collapseHyphens(removeSpecialChars(trim(toLowerCase(text)))))

\* A slugify that trims after it removed the special characters.
slugify_trimLast(text) ==
    collapseHyphens(spacesToHyphens(trim(removeSpecialChars(toLowerCase(text)))))

\* A slugify that does not trim.
slugify_noTrim(text) ==
    collapseHyphens(spacesToHyphens(removeSpecialChars(toLowerCase(text))))

\* A slugify that does not lower-case.
slugify_noLower(text) ==
    collapseHyphens(spacesToHyphens(removeSpecialChars(trim(text))))

\* A slugify that returns "n-a" instead of an empty slug.
slugify_withFallback(text) ==
    LET slug == collapseHyphens(spacesToHyphens(removeSpecialChars(trim(toLowerCase(text)))))
    IN  IF slug = <<>> THEN <<"n", "-", "a">> ELSE slug

\* slugify(text), backend-server/src/index.ts
slugify(text) ==
    collapseHyphens(spacesToHyphens(removeSpecialChars(trim(toLowerCase(text)))))

----------------------------------------------------------------------------
(* JavaScript numbers and parseInt.                                        *)

NaN == [nan |-> TRUE, val |-> 0]
Num(n) == [nan |-> FALSE, val |-> n]

\* a === b for a product id a (an integer of the fixture) and a number b:
\* NaN equals nothing.
StrictEq(a, b) == ~b.nan /\ a = b.val

\* The value of the longest prefix of decimal digits of text, after acc.
RECURSIVE digitsValue(_, _)
digitsValue(text, acc) ==
    IF text # <<>> /\ Head(text) \in Digits
    THEN digitsValue(Tail(text), 10 * acc + DigitVal(Head(text)))
    ELSE acc

\* parseInt(text, 10) || 1: an unparsable text falls back to the id 1.
parseInt_orOne(text) ==
    LET t == trimStart(text)
        neg == t # <<>> /\ Head(t) = "-"
        signed == t # <<>> /\ Head(t) \in {"-", "+"}
        d == IF signed THEN Tail(t) ELSE t
    IN  IF d = <<>> \/ Head(d) \notin Digits
        THEN Num(1)
        ELSE Num(IF neg THEN 0 - digitsValue(d, 0) ELSE digitsValue(d, 0))

\* Number(text) in the place of parseInt(text, 10): the whole text, trimmed,
\* has to be a signed run of digits; a text with anything after its digits
\* is no integer (NaN, or a fraction that equals no id).
parseInt_strict(text) ==
    LET t == trim(text)
        neg == t # <<>> /\ Head(t) = "-"
        signed == t # <<>> /\ Head(t) \in {"-", "+"}
        d == IF signed THEN Tail(t) ELSE t
    IN  IF d = <<>> \/ \E i \in DOMAIN d : d[i] \notin Digits
        THEN NaN
        ELSE Num(IF neg THEN 0 - digitsValue(d, 0) ELSE digitsValue(d, 0))

\* parseInt(text, 10): leading whitespace is skipped, one sign is read, then
\* the longest run of decimal digits; NaN when there is no digit there.
parseInt(text) ==
    LET t == trimStart(text)
        neg == t # <<>> /\ Head(t) = "-"
        signed == t # <<>> /\ Head(t) \in {"-", "+"}
        d == IF signed THEN Tail(t) ELSE t
    IN  IF d = <<>> \/ Head(d) \notin Digits
        THEN NaN
        ELSE Num(IF neg THEN 0 - digitsValue(d, 0) ELSE digitsValue(d, 0))

----------------------------------------------------------------------------
(* The product collection (data.ts).                                       *)

Undefined == [undefined |-> TRUE]

\* Names a fixture product may carry: "Ab", "a!b", "A \tb" (a space and a
\* tab), "a-B".  The first two derive the slug "ab", the last two the slug
\* "a-b".
FixtureNames ==
    { <<"A", "b">>, <<"a", "!", "b">>, <<"A", " ", "\t", "b">>, <<"a", "-", "B">> }

\* Ids a fixture product may carry (positive integers, not always unique).
FixtureIds == {1, 2}

\* The price (in cents) and availability a fixture product may carry.
FixtureStock ==
    { [price |-> 500, inStock |-> TRUE], [price |-> 0, inStock |-> FALSE] }

\* type Product
Product ==
    { [id |-> i, name |-> n, price |-> s.price, inStock |-> s.inStock] :
        i \in FixtureIds, n \in FixtureNames, s \in FixtureStock }

\* The products of the fixtures of a server run (Spec): two share the id 1,
\* two derive the slug "ab".
RunProduct ==
    { [id |-> 1, name |-> <<"A", "b">>, price |-> 500, inStock |-> TRUE],
      [id |-> 2, name |-> <<"a", "!", "b">>, price |-> 0, inStock |-> FALSE],
      [id |-> 1, name |-> <<"A", " ", "\t", "b">>, price |-> 0, inStock |-> TRUE] }

\* Every sequence of at most MaxProducts products of pool.
Fixtures(pool) == UNION { [1..n -> pool] : n \in 0..MaxProducts }

\* A getProducts that lists only the products in stock.
getProducts_inStockOnly == SelectSeq(products, LAMBDA p : p.inStock)

\* getProducts(): the collection itself.
getProducts == products

\* Array.prototype.find with the predicate (p) => p.id === id.
RECURSIVE findById(_, _)
findById(coll, id) ==
    IF coll = <<>> THEN Undefined
    ELSE IF StrictEq(Head(coll).id, id) THEN Head(coll)
         ELSE findById(Tail(coll), id)

\* Array.prototype.find with the predicate (p) => slugify(p.name) === slug.
RECURSIVE findBySlug(_, _)
findBySlug(coll, slug) ==
    IF coll = <<>> THEN Undefined
    ELSE IF slugify(Head(coll).name) = slug THEN Head(coll)
         ELSE findBySlug(Tail(coll), slug)

\* coll in reverse order.
Reverse(coll) == [k \in DOMAIN coll |-> coll[Len(coll) + 1 - k]]

\* A getProductById that returns the last match (filter(...).pop()).
getProductById_lastMatch(id) == findById(Reverse(products), id)

\* getProductById(id)
getProductById(id) == findById(products, id)

\* A getProductBySlug that normalises its argument before comparing.
getProductBySlug_normalising(slug) == findBySlug(products, slugify(slug))

\* Array.prototype.find with the predicate (p) => p.name.toLowerCase() === slug.
RECURSIVE findByLowerName(_, _)
findByLowerName(coll, slug) ==
    IF coll = <<>> THEN Undefined
    ELSE IF toLowerCase(Head(coll).name) = slug THEN Head(coll)
         ELSE findByLowerName(Tail(coll), slug)

\* A getProductBySlug that compares the lower-cased name, not the slug.
getProductBySlug_byLowerName(slug) == findByLowerName(products, slug)

\* getProductBySlug(slug)
getProductBySlug(slug) == findBySlug(products, slug)

----------------------------------------------------------------------------
(* The routes (routes.ts).                                                 *)

ListRoute == "/products"
IdRoute == "/products/:id"
SlugRoute == "/products/by-slug/:slug"

NotFoundBody == [error |-> "Product not found"]

\* The body of a request that has not been answered yet.
NoBody == [pending |-> TRUE]

\* { ...product, slug: product.name.toLowerCase() }
ToProductResponse_lowerName(product) ==
    [id |-> product.id, name |-> product.name, price |-> product.price,
     inStock |-> product.inStock, slug |-> toLowerCase(product.name)]

\* { ...product, slug: slugify(product.name) }
ToProductResponse(product) ==
    [id |-> product.id, name |-> product.name, price |-> product.price,
     inStock |-> product.inStock, slug |-> slugify(product.name)]

\* A request as the server holds it: the route it matched, its path
\* parameter, the handler's position, the handler's local `product` (or
\* the array getProducts() returned), the reply's status code and body.
NewRequest(route, param) ==
    [route |-> route, param |-> param, pc |-> "received",
     found |-> Undefined, code |-> 200, body |-> NoBody]

\* Path parameters of GET /products/:id: "1", "2", "3", "0", "-1", "+2",
\* " 1", "x", "2x", "1.2".
IdParams ==
    { <<"1">>, <<"2">>, <<"3">>, <<"0">>, <<"-", "1">>, <<"+", "2">>,
      <<" ", "1">>, <<"b">>, <<"2", "b">>, <<"1", ".", "2">> }

\* Path parameters of GET /products/by-slug/:slug: "ab", "a-b", "Ab", "AB",
\* "a b", "a!b", "a--b", "b".
SlugParams ==
    { <<"a", "b">>, <<"a", "-", "b">>, <<"A", "b">>, <<"A", "B">>,
      <<"a", " ", "b">>, <<"a", "!", "b">>, <<"a", "-", "-", "b">>, <<"b">> }

\* The requests a handler is applied to in HandlerSpec.
Inputs ==
    { [route |-> ListRoute, param |-> <<>>] }
    \cup { [route |-> IdRoute, param |-> p] : p \in IdParams }
    \cup { [route |-> SlugRoute, param |-> p] : p \in SlugParams }

\* The requests clients send in a server run (Spec).
RunInputs ==
    { [route |-> ListRoute, param |-> <<>>],
      [route |-> IdRoute, param |-> <<"1">>],
      [route |-> IdRoute, param |-> <<"2", "b">>],
      [route |-> IdRoute, param |-> <<"b">>],
      [route |-> SlugRoute, param |-> <<"a", "b">>],
      [route |-> SlugRoute, param |-> <<"a", "-", "b">>],
      [route |-> SlugRoute, param |-> <<"A", "b">>] }

\* Fastify matches a request to a route and will call its handler.
Receive(route, param) ==
    /\ Len(reqs) < MaxReqs
    /\ reqs' = Append(reqs, NewRequest(route, param))
    /\ UNCHANGED <<productsData, products>>
    /\ UNCHANGED helperVars
    /\ UNCHANGED pageVars
    /\ UNCHANGED script

\* A Lookup that memoises what a route found under the route alone, not
\* under the route and its parameter: it reuses what an earlier request of
\* the same route found.
Lookup_cachedByRoute(i) ==
    /\ reqs[i].pc = "received"
    /\ LET r == reqs[i]
           hits == {j \in DOMAIN reqs :
                      j # i /\ reqs[j].route = r.route /\ reqs[j].pc # "received"}
           found ==
               IF hits # {}
               THEN reqs[CHOOSE j \in hits : \A k \in hits : j <= k].found
               ELSE CASE r.route = ListRoute -> getProducts
                      [] r.route = IdRoute -> getProductById(parseInt(r.param))
                      [] r.route = SlugRoute -> getProductBySlug(r.param)
       IN  reqs' = [reqs EXCEPT ![i].pc = "looked", ![i].found = found]
    /\ UNCHANGED <<productsData, products>>
    /\ UNCHANGED helperVars
    /\ UNCHANGED pageVars
    /\ UNCHANGED script

\* The first half of a handler: the call into data.ts.
Lookup(i) ==
    /\ reqs[i].pc = "received"
    /\ LET r == reqs[i]
           found ==
               CASE r.route = ListRoute -> getProducts
                 [] r.route = IdRoute -> getProductById(parseInt(r.param))
                 [] r.route = SlugRoute -> getProductBySlug(r.param)
       IN  reqs' = [reqs EXCEPT ![i].pc = "looked", ![i].found = found]
    /\ UNCHANGED <<productsData, products>>
    /\ UNCHANGED helperVars
    /\ UNCHANGED pageVars
    /\ UNCHANGED script

\* A Reply whose not-found branch leaves out reply.code(404).
Reply_forgetsCode(i) ==
    /\ reqs[i].pc = "looked"
    /\ LET r == reqs[i]
       IN  reqs' =
             IF r.route = ListRoute
             THEN [reqs EXCEPT
                     ![i].pc = "replied",
                     ![i].body =
                        [products |->
                           [k \in DOMAIN r.found |-> ToProductResponse(r.found[k])]]]
             ELSE IF r.found = Undefined
             THEN [reqs EXCEPT
                     ![i].pc = "replied",
                     ![i].body = NotFoundBody]
             ELSE [reqs EXCEPT
                     ![i].pc = "replied",
                     ![i].body = [product |-> ToProductResponse(r.found)]]
    /\ UNCHANGED <<productsData, products>>
    /\ UNCHANGED helperVars
    /\ UNCHANGED pageVars
    /\ UNCHANGED script

\* A Reply that assigns the slug to the product it found
\* (product.slug = slugify(product.name)) instead of copying the product.
Reply_storesSlug(i) ==
    /\ reqs[i].pc = "looked"
    /\ LET r == reqs[i]
       IN  IF r.route = ListRoute
           THEN /\ reqs' = [reqs EXCEPT
                             ![i].pc = "replied",
                             ![i].body =
                                [products |->
                                   [k \in DOMAIN r.found |->
                                      ToProductResponse(r.found[k])]]]
                /\ products' = products
           ELSE IF r.found = Undefined
           THEN /\ reqs' = [reqs EXCEPT
                             ![i].pc = "replied",
                             ![i].code = 404,
                             ![i].body = NotFoundBody]
                /\ products' = products
           ELSE /\ reqs' = [reqs EXCEPT
                             ![i].pc = "replied",
                             ![i].body = [product |-> ToProductResponse(r.found)]]
                /\ products' =
                      [k \in DOMAIN products |->
                         IF products[k] = r.found
                         THEN ToProductResponse(r.found)
                         ELSE products[k]]
    /\ UNCHANGED productsData
    /\ UNCHANGED helperVars
    /\ UNCHANGED pageVars
    /\ UNCHANGED script

\* The second half of a handler: the reply it builds from what it found.
Reply(i) ==
    /\ reqs[i].pc = "looked"
    /\ LET r == reqs[i]
       IN  reqs' =
             IF r.route = ListRoute
             THEN [reqs EXCEPT
                     ![i].pc = "replied",
                     ![i].body =
                        [products |->
                           [k \in DOMAIN r.found |-> ToProductResponse(r.found[k])]]]
             ELSE IF r.found = Undefined
             THEN [reqs EXCEPT
                     ![i].pc = "replied",
                     ![i].code = 404,
                     ![i].body = NotFoundBody]
             ELSE [reqs EXCEPT
                     ![i].pc = "replied",
                     ![i].body = [product |-> ToProductResponse(r.found)]]
    /\ UNCHANGED <<productsData, products>>
    /\ UNCHANGED helperVars
    /\ UNCHANGED pageVars
    /\ UNCHANGED script

----------------------------------------------------------------------------
(* Spec: a server run.  The fixture is loaded, then clients send up to     *)
(* MaxReqs requests whose handlers' steps interleave in any order.         *)

\* No helper call is under way.
HelpersIdle ==
    /\ slugText = <<>>
    /\ slugs = <<>>
    /\ priceCents = 0
    /\ priced = [called |-> FALSE]

\* null
Null == [null |-> TRUE]

\* The address of the home page, which lists the products.
HomeHref == [dir |-> "/", segment |-> <<>>]

\* The browser on the home page, before it opened a page under /products/:
\* the addresses it went to so far, and no detail page mounted.
NoPage ==
    [history |-> <<HomeHref>>, route |-> "none", slug |-> <<>>,
     product |-> Null, loading |-> FALSE, error |-> Null, deps |-> Null]

\* The browser shows no page and no fetch was issued.
PageIdle ==
    /\ page = NoPage
    /\ fetches = <<>>

\* No exit status: the script has not exited.
Running == 0 - 1

\* The shell before verify-stable-builds.sh is run: the position in the
\* script, its variables, the tests print_test announced, the numbers of
\* lines pass, fail and warn printed, how the two builds ended, the tests
\* whose checks a warning said were skipped, what the summary printed and
\* the exit status (none yet).
NoScript ==
    [pc |-> "idle", PASSED |-> 0, FAILED |-> 0, FRONTEND_IMAGE |-> "",
     tests |-> {}, out |-> [pass |-> 0, fail |-> 0, warn |-> 0],
     build1 |-> "none", build2 |-> "none",
     FRONTEND_BUILD1_FINGERPRINT |-> "", BACKEND_BUILD1_FINGERPRINT |-> "",
     FRONTEND_BUILD2_FINGERPRINT |-> "", BACKEND_BUILD2_FINGERPRINT |-> "",
     FRONTEND_MATCH |-> "", BACKEND_MATCH |-> "",
     skipped |-> {}, summary |-> {}, status |-> Running]

\* The script is not run.
ScriptIdle == script = NoScript

Init ==
    /\ productsData \in Fixtures(RunProduct)
    /\ products = productsData
    /\ reqs = <<>>
    /\ HelpersIdle
    /\ PageIdle
    /\ ScriptIdle

Next ==
    \/ \E in \in RunInputs : Receive(in.route, in.param)
    \/ \E i \in DOMAIN reqs : Lookup(i)
    \/ \E i \in DOMAIN reqs : Reply(i)

Spec == Init /\ [][Next]_vars

(* SlugSpec: slugify called with a string of at most MaxSlugLen           *)
(* characters, then called again with what it returned.                    *)

\* Every string of at most n characters of alphabet.
Strings(alphabet, n) == UNION { [1..k -> alphabet] : k \in 0..n }

\* The characters of the strings slugify is called with: a lower-case and an
\* upper-case letter, a digit, the underscore, a space and a tab, the
\* hyphen, a punctuation character and a letter outside ASCII.
SlugAlphabet == {"a", "A", "1", "_", " ", "\t", "-", "!", "é"}

\* No request is served.
ServerIdle ==
    /\ productsData = <<>>
    /\ products = <<>>
    /\ reqs = <<>>

\* slugify(text) is called with the input.
Slugify ==
    /\ slugs = <<>>
    /\ slugs' = <<slugify(slugText)>>
    /\ UNCHANGED <<slugText, priceCents, priced>>
    /\ UNCHANGED serverVars
    /\ UNCHANGED pageVars
    /\ UNCHANGED script

\* slugify is called with the slug it returned.
SlugifyAgain ==
    /\ Len(slugs) = 1
    /\ slugs' = Append(slugs, slugify(slugs[1]))
    /\ UNCHANGED <<slugText, priceCents, priced>>
    /\ UNCHANGED serverVars
    /\ UNCHANGED pageVars
    /\ UNCHANGED script

SlugInit ==
    /\ slugText \in Strings(SlugAlphabet, MaxSlugLen)
    /\ slugs = <<>>
    /\ priceCents = 0
    /\ priced = [called |-> FALSE]
    /\ ServerIdle
    /\ PageIdle
    /\ ScriptIdle

SlugNext == Slugify \/ SlugifyAgain

SlugSpec == SlugInit /\ [][SlugNext]_vars

(* formatPrice (products frontend, lib/utils.ts) and PriceSpec: formatPrice *)
(* called with an integer number of cents.                                 *)

\* The character of a decimal digit 0..9.
DigitChar(d) ==
    CASE d = 0 -> "0" [] d = 1 -> "1" [] d = 2 -> "2" [] d = 3 -> "3"
      [] d = 4 -> "4" [] d = 5 -> "5" [] d = 6 -> "6" [] d = 7 -> "7"
      [] d = 8 -> "8" [] d = 9 -> "9"

\* The decimal digits of a natural number, without leading zeros.
RECURSIVE decimal(_)
decimal(n) ==
    IF n < 10 THEN <<DigitChar(n)>>
    ELSE decimal(n \div 10) \o <<DigitChar(n % 10)>>

\* (cents / 100).toFixed(1) in the place of toFixed(2): one fraction digit,
\* the hundredths rounded half up.
toFixed2_oneDigit(cents) ==
    decimal((cents + 5) \div 100) \o <<".", DigitChar(((cents + 5) % 100) \div 10)>>

\* (cents / 100).toFixed(2) for an integer cents >= 0 small enough for the
\* double nearest to cents / 100 to round back to cents hundredths.
toFixed2(cents) ==
    decimal(cents \div 100)
        \o <<".", DigitChar((cents % 100) \div 10), DigitChar(cents % 10)>>

\* A formatPrice whose guard is cents <= 0.
formatPrice_rejectsZero(cents) ==
    IF cents <= 0
    THEN [called |-> TRUE, threw |-> TRUE, message |-> "Price cannot be negative"]
    ELSE [called |-> TRUE, threw |-> FALSE, value |-> <<"$">> \o toFixed2(cents)]

\* formatPrice(cents): how the call ends, with the error it throws or the
\* string it returns.
formatPrice(cents) ==
    IF cents < 0
    THEN [called |-> TRUE, threw |-> TRUE, message |-> "Price cannot be negative"]
    ELSE [called |-> TRUE, threw |-> FALSE, value |-> <<"$">> \o toFixed2(cents)]

\* The numbers of cents formatPrice is called with: a range around zero and
\* the amounts of the tests.
PriceInputs == ((0 - MaxCents)..MaxCents) \cup {1000, 123456}

\* formatPrice(cents) is called.
FormatPrice ==
    /\ ~priced.called
    /\ priced' = formatPrice(priceCents)
    /\ UNCHANGED <<slugText, slugs, priceCents>>
    /\ UNCHANGED serverVars
    /\ UNCHANGED pageVars
    /\ UNCHANGED script

PriceInit ==
    /\ priceCents \in PriceInputs
    /\ priced = [called |-> FALSE]
    /\ slugText = <<>>
    /\ slugs = <<>>
    /\ ServerIdle
    /\ PageIdle
    /\ ScriptIdle

PriceNext == FormatPrice

PriceSpec == PriceInit /\ [][PriceNext]_vars

(* HandlerSpec: one handler applied to one request, for every fixture and  *)
(* every request of Inputs.                                                *)

HandlerInit ==
    /\ productsData \in Fixtures(Product)
    /\ products = productsData
    /\ reqs \in { <<NewRequest(in.route, in.param)>> : in \in Inputs }
    /\ HelpersIdle
    /\ PageIdle
    /\ ScriptIdle

HandlerNext ==
    \/ \E i \in DOMAIN reqs : Lookup(i)
    \/ \E i \in DOMAIN reqs : Reply(i)

HandlerSpec == HandlerInit /\ [][HandlerNext]_vars

----------------------------------------------------------------------------
(* The product detail page of the demo frontend                            *)
(* (app/products/[slug]/page.tsx), the links that lead to it, and          *)
(* PageSpec: the browser opens the page, the page fetches its product from *)
(* the server, the slug may change while fetches are in flight.            *)

\* The fixtures of PageSpec: one product; two products that derive the same
\* slug "ab"; two that derive the slugs "ab" and "a-b"; one that derives the
\* empty slug, before one that derives "ab".
PageFixtures ==
    LET ab == [id |-> 1, name |-> <<"A", "b">>, price |-> 500, inStock |-> TRUE]
        ab2 == [id |-> 2, name |-> <<"a", "!", "b">>, price |-> 0, inStock |-> FALSE]
        a_b == [id |-> 3, name |-> <<"a", "-", "B">>, price |-> 500, inStock |-> TRUE]
        none == [id |-> 4, name |-> <<"!">>, price |-> 0, inStock |-> TRUE]
    IN  { <<ab>>, <<ab, ab2>>, <<ab, a_b>>, <<none, ab>> }

\* The slugs of the addresses a visitor types, and of the addresses the
\* page is taken to while it is shown: "ab", "a-b" and "b".
PageSlugs == { <<"a", "b">>, <<"a", "-", "b">>, <<"b">> }

DetailRoute == "/products/[slug]"
NotFoundRoute == "not-found"

\* What GET /products answers, which the home page hands to the cards and
\* to the table: products.map((product) => ({ ...product, slug })).
ListedProducts == [k \in DOMAIN getProducts |-> ToProductResponse(getProducts[k])]

\* `/products/${slug}`: the address under /products/ with one more segment.
DetailsHref(slug) == [dir |-> "/products/", segment |-> slug]

\* The state of a freshly mounted ProductDetailPage: the slug useParams()
\* returns, the useState initial values, and an effect that has not run yet.
Mount(href) ==
    [history |-> Append(page.history, href), route |-> DetailRoute,
     slug |-> href.segment,
     product |-> Null, loading |-> TRUE, error |-> Null, deps |-> Null]

\* The page the router mounts for an address under /products/: the dynamic
\* segment [slug] matches one non-empty segment.
Route(href) ==
    IF href.segment # <<>>
    THEN Mount(href)
    ELSE [NoPage EXCEPT
            !.history = Append(page.history, href),
            !.route = NotFoundRoute]

\* A fetch the effect issued: the slug it asked for, the position of its
\* promise chain, the response and the error it carries.
NewFetch(slug) ==
    [slug |-> slug, pc |-> "pending", req |-> 0, res |-> Null, err |-> Null]

\* res.ok: a status from 200 to 299.
Ok(code) == code >= 200 /\ code <= 299

\* data.product
ProductOf(data) == IF "product" \in DOMAIN data THEN data.product ELSE Undefined

\* A component whose second test is `if (!product)`: the error is not
\* looked at.
Render_ignoresError ==
    IF page.loading
    THEN [view |-> "loading"]
    ELSE IF page.product \in {Null, Undefined}
    THEN [view |-> "error",
          message |-> IF page.error # Null
                      THEN page.error.message
                      ELSE "Product not found"]
    ELSE [view |-> "product", product |-> page.product]

\* What the component returns: the loading view, the error view with its
\* message, or the product view with the product it shows.
Render ==
    IF page.loading
    THEN [view |-> "loading"]
    ELSE IF page.error # Null \/ page.product \in {Null, Undefined}
    THEN [view |-> "error",
          message |-> IF page.error # Null
                      THEN page.error.message
                      ELSE "Product not found"]
    ELSE [view |-> "product", product |-> page.product]

\* The visitor follows the "View Details" link of the card, or clicks the
\* table row, of the k-th listed product.
FollowLink(k) ==
    /\ page.route = "none"
    /\ page' = Route(DetailsHref(ListedProducts[k].slug))
    /\ UNCHANGED fetches
    /\ UNCHANGED serverVars
    /\ UNCHANGED helperVars
    /\ UNCHANGED script

\* The visitor opens the address /products/<slug> directly.
OpenUrl(slug) ==
    /\ page.route = "none"
    /\ page' = Route(DetailsHref(slug))
    /\ UNCHANGED fetches
    /\ UNCHANGED serverVars
    /\ UNCHANGED helperVars
    /\ UNCHANGED script

\* The address changes to /products/<slug> and useParams() returns another
\* slug: the mounted page is rendered again with it, its state kept.  React
\* has run the effect of the render before.
Navigate(slug) ==
    /\ page.route = DetailRoute
    /\ page.deps = [slug |-> page.slug]
    /\ slug # page.slug
    /\ Len(fetches) < MaxReqs
    /\ page' = [page EXCEPT
                  !.history = Append(@, DetailsHref(slug)),
                  !.slug = slug]
    /\ UNCHANGED fetches
    /\ UNCHANGED serverVars
    /\ UNCHANGED helperVars
    /\ UNCHANGED script

\* useEffect(() => { fetch(...)... }, [slug]): after the first render and
\* after every render with another slug, the effect issues a fetch.
UseEffect ==
    /\ page.route = DetailRoute
    /\ page.deps # [slug |-> page.slug]
    /\ fetches' = Append(fetches, NewFetch(page.slug))
    /\ page' = [page EXCEPT !.deps = [slug |-> page.slug]]
    /\ UNCHANGED serverVars
    /\ UNCHANGED helperVars
    /\ UNCHANGED script

\* Whether fewer requests for the slug reached the server than the page
\* issued fetches for it.
Unserved(slug) ==
    Cardinality({i \in DOMAIN reqs :
                   reqs[i].route = SlugRoute /\ reqs[i].param = slug})
      < Cardinality({k \in DOMAIN fetches : fetches[k].slug = slug})

\* The request of a fetch reaches the server.
Arrive(slug) ==
    /\ Unserved(slug)
    /\ Receive(SlugRoute, slug)

\* The reply of the server to request i reaches the page as the response of
\* fetch k: the promise of fetch(...) is fulfilled with res.
Respond(k, i) ==
    /\ fetches[k].pc = "pending"
    /\ reqs[i].pc = "replied"
    /\ reqs[i].route = SlugRoute
    /\ reqs[i].param = fetches[k].slug
    /\ \A j \in DOMAIN fetches : fetches[j].req # i
    /\ fetches' =
          [fetches EXCEPT
             ![k].pc = "responded",
             ![k].req = i,
             ![k].res = [ok |-> Ok(reqs[i].code), body |-> reqs[i].body]]
    /\ UNCHANGED page
    /\ UNCHANGED serverVars
    /\ UNCHANGED helperVars
    /\ UNCHANGED script

\* The network fails: the promise of fetch(...), or the promise of
\* res.json() while the body is read, is rejected with a TypeError.
FetchFails(k) ==
    /\ fetches[k].pc \in {"pending", "parsing"}
    /\ fetches' =
          [fetches EXCEPT
             ![k].pc = "rejected",
             ![k].err = [message |-> "Failed to fetch"]]
    /\ UNCHANGED page
    /\ UNCHANGED serverVars
    /\ UNCHANGED helperVars
    /\ UNCHANGED script

\* .then((res) => { if (!res.ok) throw new Error("Product not found");
\*                  return res.json(); })
ThenCheck(k) ==
    /\ fetches[k].pc = "responded"
    /\ fetches' =
          IF ~fetches[k].res.ok
          THEN [fetches EXCEPT
                  ![k].pc = "rejected",
                  ![k].err = [message |-> "Product not found"]]
          ELSE [fetches EXCEPT ![k].pc = "parsing"]
    /\ UNCHANGED page
    /\ UNCHANGED serverVars
    /\ UNCHANGED helperVars
    /\ UNCHANGED script

\* .then((data) => { setProduct(data); setLoading(false); }): the body is
\* stored, not its product.
ThenStore_storesData(k) ==
    /\ fetches[k].pc = "parsing"
    /\ page' = [page EXCEPT !.product = fetches[k].res.body, !.loading = FALSE]
    /\ fetches' = [fetches EXCEPT ![k].pc = "done"]
    /\ UNCHANGED serverVars
    /\ UNCHANGED helperVars
    /\ UNCHANGED script

\* .then((data) => { setProduct(data.product); setLoading(false); })
ThenStore(k) ==
    /\ fetches[k].pc = "parsing"
    /\ page' = [page EXCEPT
                  !.product = ProductOf(fetches[k].res.body),
                  !.loading = FALSE]
    /\ fetches' = [fetches EXCEPT ![k].pc = "done"]
    /\ UNCHANGED serverVars
    /\ UNCHANGED helperVars
    /\ UNCHANGED script

\* .catch((err) => { setError(err); }): a handler that leaves loading alone.
Catch_keepsLoading(k) ==
    /\ fetches[k].pc = "rejected"
    /\ page' = [page EXCEPT !.error = fetches[k].err]
    /\ fetches' = [fetches EXCEPT ![k].pc = "caught"]
    /\ UNCHANGED serverVars
    /\ UNCHANGED helperVars
    /\ UNCHANGED script

\* .catch((err) => { setError(err); setLoading(false); })
Catch(k) ==
    /\ fetches[k].pc = "rejected"
    /\ page' = [page EXCEPT !.error = fetches[k].err, !.loading = FALSE]
    /\ fetches' = [fetches EXCEPT ![k].pc = "caught"]
    /\ UNCHANGED serverVars
    /\ UNCHANGED helperVars
    /\ UNCHANGED script

PageInit ==
    /\ productsData \in PageFixtures
    /\ products = productsData
    /\ reqs = <<>>
    /\ HelpersIdle
    /\ PageIdle
    /\ ScriptIdle

PageNext ==
    \/ \E k \in DOMAIN ListedProducts : FollowLink(k)
    \/ \E slug \in PageSlugs : OpenUrl(slug)
    \/ \E slug \in PageSlugs : Navigate(slug)
    \/ UseEffect
    \/ \E slug \in PageSlugs : Arrive(slug)
    \/ \E i \in DOMAIN reqs : Lookup(i)
    \/ \E i \in DOMAIN reqs : Reply(i)
    \/ \E k \in DOMAIN fetches : \E i \in DOMAIN reqs : Respond(k, i)
    \/ \E k \in DOMAIN fetches : FetchFails(k)
    \/ \E k \in DOMAIN fetches : ThenCheck(k)
    \/ \E k \in DOMAIN fetches : ThenStore(k)
    \/ \E k \in DOMAIN fetches : Catch(k)

PageSpec == PageInit /\ [][PageNext]_vars

\* A step of React, of the server, of the answer on its way back or of a
\* handler of the promise chain: every step but the visitor's and the
\* network's failures.
PageProgress ==
    \/ UseEffect
    \/ \E slug \in PageSlugs : Arrive(slug)
    \/ \E i \in DOMAIN reqs : Lookup(i)
    \/ \E i \in DOMAIN reqs : Reply(i)
    \/ \E k \in DOMAIN fetches : \E i \in DOMAIN reqs : Respond(k, i)
    \/ \E k \in DOMAIN fetches : ThenCheck(k)
    \/ \E k \in DOMAIN fetches : ThenStore(k)
    \/ \E k \in DOMAIN fetches : Catch(k)

\* PageFairSpec: PageSpec where React runs the pending effect, the server
\* receives and answers the requests sent to it, the answers reach the page
\* and the event loop runs the handlers that are due: while such a step is
\* possible, one is taken.  The network may still fail.
PageFairness == WF_vars(PageProgress)

\* The fixture of PageFairSpec: two products, which derive "ab" and "a-b".
PageFairInit ==
    /\ PageInit
    /\ Len(productsData) = 2
    /\ \A k \in DOMAIN productsData : productsData[k].inStock

PageFairSpec == PageFairInit /\ [][PageNext]_vars /\ PageFairness

----------------------------------------------------------------------------
(* The stable-builds verification script (scripts/verify-stable-builds.sh) *)
(* and ScriptSpec: one run of the script, for every outcome of the         *)
(* commands it runs.                                                       *)

\* The variables the script leaves alone.
nonScriptVars == <<serverVars, helperVars, pageVars>>

\* What a command substitution that counts lines may capture: nothing (the
\* docker command failed) or a number.
NoOutput == 0 - 1
Counts == {NoOutput, 0, 1, 2, 5, 7}

\* [ a -eq b ] and [ a -gt b ]: false (with an error message) when a is not
\* a number.
IntEq(a, b) == a # NoOutput /\ a = b
IntGt(a, b) == a # NoOutput /\ a > b

EXPECTED_PACKAGE_JSONS == 7
EXPECTED_WORKSPACE_PACKAGES == 5

\* Versions the script may extract, as major, minor, patch; <<>> when the
\* extraction gave nothing.
NextVersions == { <<>>, <<16, 0, 0>>, <<15, 5, 4>> }
TypeScriptVersions == { <<>>, <<5, 9, 2>>, <<5, 8, 3>> }
TanstackVersions == { <<>>, <<8, 20, 5>>, <<8, 21, 3>> }

\* [[ "$LOCAL_TANSTACK_VERSION" =~ ^8\.20\. ]]
Matches820(version) == Len(version) = 3 /\ version[1] = 8 /\ version[2] = 20

\* What the fingerprint pipeline may capture: nothing (docker run failed),
\* or the md5 sum of a package list.
Fingerprints == {"", "cc9abf0d", "62cc3a4d"}

\* print_test "Test n: ..."
print_test(s, n) == [s EXCEPT !.tests = @ \cup {n}]

\* pass(): a green line, and ((PASSED++)).
pass(s) == [s EXCEPT !.out.pass = @ + 1, !.PASSED = @ + 1]

\* fail(): a red line, and ((FAILED++)).
fail(s) == [s EXCEPT !.out.fail = @ + 1, !.FAILED = @ + 1]

\* A warn() that counts the warning as a failure.
warn_counting(s) == [s EXCEPT !.out.warn = @ + 1, !.FAILED = @ + 1]

\* warn(): a yellow line.
warn(s) == [s EXCEPT !.out.warn = @ + 1]

\* The shell goes on with the command at pc.
goto(s, pc) == [s EXCEPT !.pc = pc]

\* Test 1: Single lockfile verification.
Test1 ==
    /\ script.pc = "test1"
    /\ \E LOCKFILE_COUNT \in {0, 1, 2} :
          LET s == print_test(script, 1)
          IN  script' = goto(IF IntEq(LOCKFILE_COUNT, 1) THEN pass(s) ELSE fail(s),
                             "test2")
    /\ UNCHANGED nonScriptVars

\* Test 2: Clean Docker environment (the outcome of the commands is ignored).
Test2 ==
    /\ script.pc = "test2"
    /\ script' = goto(pass(print_test(script, 2)), "test3")
    /\ UNCHANGED nonScriptVars

\* Test 3 under set -e: the script stops at the failed build.
Test3_setE ==
    /\ script.pc = "test3"
    /\ \E built \in BOOLEAN :
          LET s == print_test(script, 3)
          IN  script' =
                IF built
                THEN goto([pass(s) EXCEPT !.build1 = "built"], "test4")
                ELSE [s EXCEPT !.build1 = "failed", !.pc = "exited", !.status = 1]
    /\ UNCHANGED nonScriptVars

\* Test 3: Build from scratch (no cache).
Test3 ==
    /\ script.pc = "test3"
    /\ \E built \in BOOLEAN :
          LET s == print_test(script, 3)
          IN  script' =
                IF built
                THEN goto([pass(s) EXCEPT !.build1 = "built"], "test4")
                ELSE goto([warn(fail(s)) EXCEPT !.build1 = "failed"], "test4")
    /\ UNCHANGED nonScriptVars

\* Test 4: Inspect turbo prune output; the pruned package.json files.
Test4 ==
    /\ script.pc = "test4"
    /\ \E PRUNED_PACKAGES \in Counts :
          LET s == print_test(script, 4)
          IN  script' =
                goto(IF IntEq(PRUNED_PACKAGES, EXPECTED_PACKAGE_JSONS) THEN pass(s)
                     ELSE IF IntGt(PRUNED_PACKAGES, 0) THEN warn(s)
                     ELSE fail(s),
                     "test4_workspace")
    /\ UNCHANGED nonScriptVars

\* Test 4, second check: the workspace packages of the prune output.
Test4Workspace ==
    /\ script.pc = "test4_workspace"
    /\ \E WORKSPACE_PACKAGES \in Counts :
          script' =
            goto(IF IntEq(WORKSPACE_PACKAGES, EXPECTED_WORKSPACE_PACKAGES)
                 THEN pass(script)
                 ELSE IF IntGt(WORKSPACE_PACKAGES, 0) THEN warn(script)
                 ELSE fail(script),
                 "test5")
    /\ UNCHANGED nonScriptVars

\* Test 5: Container filesystem inspection; whether the frontend image exists.
Test5 ==
    /\ script.pc = "test5"
    /\ \E exists \in BOOLEAN :
          LET s == [print_test(script, 5) EXCEPT
                      !.FRONTEND_IMAGE = "deployments-frontend:latest"]
          IN  script' =
                IF exists
                THEN goto(pass(s), "test5_standalone")
                ELSE goto([fail(s) EXCEPT !.FRONTEND_IMAGE = ""], "test6")
    /\ UNCHANGED nonScriptVars

\* Test 5, the frontend image exists: whether it is a standalone build.
Test5Standalone ==
    /\ script.pc = "test5_standalone"
    /\ \E STANDALONE_SERVER \in {"yes", "no", ""} :
          script' = IF STANDALONE_SERVER = "yes"
                    THEN goto(pass(script), "test5_runtime")
                    ELSE goto(script, "test5_workspace")
    /\ UNCHANGED nonScriptVars

\* Test 5, standalone build: the runtime dependencies.
Test5Runtime ==
    /\ script.pc = "test5_runtime"
    /\ \E NEXT_SERVER \in {"yes", "no", ""} :
          script' = goto(IF NEXT_SERVER = "yes" THEN pass(script) ELSE fail(script),
                         "test5_symlinks")
    /\ UNCHANGED nonScriptVars

\* Test 5, not a standalone build: the workspace packages in node_modules.
Test5Workspace ==
    /\ script.pc = "test5_workspace"
    /\ \E WORKSPACE_IN_CONTAINER \in Counts :
          script' = goto(IF IntGt(WORKSPACE_IN_CONTAINER, 0)
                         THEN pass(script) ELSE warn(script),
                         "test5_symlinks")
    /\ UNCHANGED nonScriptVars

\* Test 5, last check: broken symlinks.
Test5Symlinks ==
    /\ script.pc = "test5_symlinks"
    /\ \E BROKEN_SYMLINKS \in Counts :
          script' = goto(IF IntEq(BROKEN_SYMLINKS, 0)
                         THEN pass(script) ELSE fail(script),
                         "test6")
    /\ UNCHANGED nonScriptVars

\* Test 6: Lockfile version matching.  docker run of an empty image name
\* fails and prints nothing on its standard output.
Test6 ==
    /\ script.pc = "test6"
    /\ \E LOCAL_NEXT_VERSION \in NextVersions :
       \E DOCKER_NEXT_VERSION \in
            IF script.FRONTEND_IMAGE = "" THEN { <<>> } ELSE NextVersions :
          LET s == print_test(script, 6)
          IN  script' =
                goto(IF LOCAL_NEXT_VERSION = <<>> THEN warn(s)
                     ELSE IF DOCKER_NEXT_VERSION = <<>> THEN warn(s)
                     ELSE IF LOCAL_NEXT_VERSION = DOCKER_NEXT_VERSION THEN pass(s)
                     ELSE fail(s),
                     "test7")
    /\ UNCHANGED nonScriptVars

\* Test 7: catalog and permissive dependency versions; skipped with a
\* warning when the frontend image is not available.
Test7 ==
    /\ script.pc = "test7"
    /\ LET s == print_test(script, 7)
       IN  script' =
             IF s.FRONTEND_IMAGE = ""
             THEN goto([warn(s) EXCEPT !.skipped = @ \cup {7}], "test8")
             ELSE goto(s, "test7_typescript")
    /\ UNCHANGED nonScriptVars

\* Test 7: the TypeScript version (catalog dependency).
Test7TypeScript ==
    /\ script.pc = "test7_typescript"
    /\ \E LOCAL_TS_VERSION \in TypeScriptVersions,
          DOCKER_TS_VERSION \in TypeScriptVersions :
          script' =
            goto(IF LOCAL_TS_VERSION # <<>> /\ DOCKER_TS_VERSION # <<>>
                 THEN IF DOCKER_TS_VERSION = LOCAL_TS_VERSION
                      THEN pass(script) ELSE warn(script)
                 ELSE warn(script),
                 "test7_tanstack")
    /\ UNCHANGED nonScriptVars

\* Test 7: the TanStack Table version (permissive dependency ~8.20.1).
Test7Tanstack ==
    /\ script.pc = "test7_tanstack"
    /\ \E LOCAL_TANSTACK_VERSION \in TanstackVersions :
          script' =
            goto(IF LOCAL_TANSTACK_VERSION # <<>>
                 THEN IF Matches820(LOCAL_TANSTACK_VERSION)
                      THEN pass(script) ELSE fail(script)
                 ELSE warn(script),
                 "test8")
    /\ UNCHANGED nonScriptVars

\* Test 8: Runtime isolation test.  wc -l on the host always prints a number.
Test8 ==
    /\ script.pc = "test8"
    /\ \E started \in BOOLEAN, RUNNING_CONTAINERS \in Counts \ {NoOutput} :
          LET s == print_test(script, 8)
          IN  script' =
                goto(IF started
                     THEN IF IntGt(RUNNING_CONTAINERS, 0) THEN pass(s) ELSE fail(s)
                     ELSE fail(s),
                     "test9")
    /\ UNCHANGED nonScriptVars

\* Test 9: Frozen lockfile verification.
Test9 ==
    /\ script.pc = "test9"
    /\ \E found \in BOOLEAN :
          LET s == print_test(script, 9)
          IN  script' = goto(IF found THEN pass(s) ELSE warn(s), "test10")
    /\ UNCHANGED nonScriptVars

\* Test 10, up to the second build: the images of Test 3 are tagged build1
\* (failures of docker tag are ignored) and their fingerprints extracted.
Test10 ==
    /\ script.pc = "test10"
    /\ \E frontend \in Fingerprints, backend \in Fingerprints :
          script' = goto([print_test(script, 10) EXCEPT
                            !.FRONTEND_BUILD1_FINGERPRINT = frontend,
                            !.BACKEND_BUILD1_FINGERPRINT = backend],
                         "test10_build")
    /\ UNCHANGED nonScriptVars

\* FRONTEND_MATCH=false, then true if the two strings are equal.
Match(fingerprint1, fingerprint2) ==
    IF fingerprint1 = fingerprint2 THEN "true" ELSE "false"

\* Test 10, the second build: fingerprints extracted and compared when it
\* succeeds, a warning when it fails.
Test10Build ==
    /\ script.pc = "test10_build"
    /\ \E built \in BOOLEAN, frontend \in Fingerprints, backend \in Fingerprints :
          script' =
            IF built
            THEN LET s == [script EXCEPT
                             !.build2 = "built",
                             !.FRONTEND_BUILD2_FINGERPRINT = frontend,
                             !.BACKEND_BUILD2_FINGERPRINT = backend,
                             !.FRONTEND_MATCH =
                                 Match(script.FRONTEND_BUILD1_FINGERPRINT, frontend),
                             !.BACKEND_MATCH =
                                 Match(script.BACKEND_BUILD1_FINGERPRINT, backend)]
                 IN  goto(IF s.FRONTEND_MATCH = "true" /\ s.BACKEND_MATCH = "true"
                          THEN pass(s) ELSE fail(s),
                          "summary")
            ELSE goto([warn(script) EXCEPT !.build2 = "failed",
                                           !.skipped = @ \cup {10}],
                      "summary")
    /\ UNCHANGED nonScriptVars

\* Final summary: the verdict and the exit status.
Summary ==
    /\ script.pc = "summary"
    /\ script' =
         IF script.FAILED = 0
         THEN [script EXCEPT !.pc = "exited", !.status = 0,
                 !.summary = {"Stable Docker Builds: PASSED",
                              "Stable (same source -> same image)"}]
         ELSE [script EXCEPT !.pc = "exited", !.status = 1,
                 !.summary = {"Stable Docker Builds: FAILED"}]
    /\ UNCHANGED nonScriptVars

\* The script starts: PASSED=0, FAILED=0, and Test 1 is next.
ScriptInit ==
    /\ HelpersIdle
    /\ ServerIdle
    /\ PageIdle
    /\ script = [NoScript EXCEPT !.pc = "test1"]

ScriptNext ==
    \/ Test1
    \/ Test2
    \/ Test3
    \/ Test4
    \/ Test4Workspace
    \/ Test5
    \/ Test5Standalone
    \/ Test5Runtime
    \/ Test5Workspace
    \/ Test5Symlinks
    \/ Test6
    \/ Test7
    \/ Test7TypeScript
    \/ Test7Tanstack
    \/ Test8
    \/ Test9
    \/ Test10
    \/ Test10Build
    \/ Summary

ScriptSpec == ScriptInit /\ [][ScriptNext]_vars

\* The shell runs one command after the other, and each command of the
\* script ends: whatever step is next is eventually taken.
ScriptFairness == WF_vars(ScriptNext)

ScriptFairSpec == ScriptInit /\ [][ScriptNext]_vars /\ ScriptFairness

----------------------------------------------------------------------------
(* Vocabulary of the properties.                                           *)

Min(S) == CHOOSE x \in S : \A y \in S : x <= y

ProductFields == {"id", "name", "price", "inStock"}
ViewFields == ProductFields \cup {"slug"}

\* The positions of coll whose product derives the slug.
SlugMatches(coll, slug) ==
    {k \in DOMAIN coll : slugify(coll[k].name) = slug}

\* The positions of coll whose product carries the id the number n denotes.
IdMatches(coll, n) ==
    {k \in DOMAIN coll : ~n.nan /\ coll[k].id = n.val}

\* The ProductView of product p: p's fields and the slug derived from its name.
ViewOf(p) ==
    [id |-> p.id, name |-> p.name, price |-> p.price, inStock |-> p.inStock,
     slug |-> slugify(p.name)]

Looked(r) == r.pc \in {"looked", "replied"}
Replied(r) == r.pc = "replied"
IsNotFound(r) == r.code = 404 /\ r.body = NotFoundBody
IsProduct(r, p) == r.code = 200 /\ r.body = [product |-> ViewOf(p)]

----------------------------------------------------------------------------
(* Properties.                                                             *)

\* C1: getBySlug returns the first product in collection order whose derived
\* slug equals the argument exactly, and NotFound exactly when no product's
\* derived slug equals it; the route answers with that product, or with 404.
C1_GetBySlugFirstMatch ==
    \A i \in DOMAIN reqs :
        LET r == reqs[i]
            m == SlugMatches(products, r.param)
        IN  r.route = SlugRoute =>
              /\ Looked(r) =>
                   /\ (r.found = Undefined) <=> (m = {})
                   /\ m # {} => r.found = products[Min(m)]
              /\ Replied(r) =>
                   /\ IsNotFound(r) <=> (m = {})
                   /\ m # {} => IsProduct(r, products[Min(m)])

\* C1 witness: two different products derive the requested slug and the
\* reply carries the earlier one.
C1_Witness ==
    \E i \in DOMAIN reqs :
        /\ reqs[i].route = SlugRoute
        /\ Replied(reqs[i])
        /\ Len(products) = 2
        /\ SlugMatches(products, reqs[i].param) = {1, 2}
        /\ products[1] # products[2]
        /\ IsProduct(reqs[i], products[1])

\* C2: getById returns the first product in collection order whose id equals
\* the argument, and NotFound whenever none does (a negative, zero or NaN
\* argument included).
C2_GetByIdFirstMatch ==
    \A i \in DOMAIN reqs :
        LET r == reqs[i]
            m == IdMatches(products, parseInt(r.param))
        IN  r.route = IdRoute =>
              /\ Looked(r) =>
                   /\ (r.found = Undefined) <=> (m = {})
                   /\ m # {} => r.found = products[Min(m)]
              /\ Replied(r) =>
                   /\ IsNotFound(r) <=> (m = {})
                   /\ m # {} => IsProduct(r, products[Min(m)])

\* C2 witness: two different products share the requested id and the reply
\* carries the earlier one.
C2_Witness ==
    \E i \in DOMAIN reqs :
        /\ reqs[i].route = IdRoute
        /\ Replied(reqs[i])
        /\ Len(products) = 2
        /\ IdMatches(products, parseInt(reqs[i].param)) = {1, 2}
        /\ products[1] # products[2]
        /\ IsProduct(reqs[i], products[1])

\* C3: GET /products answers 200 with one view per product, in collection
\* order, each the product's fields plus its derived slug; never a not-found.
C3_ListAllInOrder ==
    \A i \in DOMAIN reqs :
        LET r == reqs[i]
        IN  (r.route = ListRoute /\ Replied(r)) =>
              /\ r.code = 200
              /\ DOMAIN r.body = {"products"}
              /\ Len(r.body.products) = Len(products)
              /\ \A k \in DOMAIN products :
                     r.body.products[k] = ViewOf(products[k])

\* C3 witness: a list reply over two products that are not in id order and
\* of which one is out of stock.
C3_Witness ==
    \E i \in DOMAIN reqs :
        /\ reqs[i].route = ListRoute
        /\ Replied(reqs[i])
        /\ Len(products) = 2
        /\ products[1].id > products[2].id
        /\ ~products[1].inStock
        /\ Len(reqs[i].body.products) = 2

\* C4: a by-id or by-slug reply is 404 { error: "Product not found" } exactly
\* when the lookup found nothing, and otherwise 200 { product: view } with a
\* whole view of the product found.
C4_NotFoundIs404 ==
    \A i \in DOMAIN reqs :
        LET r == reqs[i]
        IN  r.route \in {IdRoute, SlugRoute} =>
              /\ Replied(r) =>
                   /\ IsNotFound(r) <=> (r.found = Undefined)
                   /\ r.code \in {200, 404}
                   /\ r.code = 404 => r.body = NotFoundBody
                   /\ r.code = 200 =>
                        /\ DOMAIN r.body = {"product"}
                        /\ DOMAIN r.body.product = ViewFields
                        /\ \A f \in ProductFields :
                               r.body.product[f] = r.found[f]

\* C4 witness: a by-slug lookup over a non-empty collection missed and was
\* answered 404.
C4_Witness ==
    \E i \in DOMAIN reqs :
        /\ reqs[i].route = SlugRoute
        /\ Replied(reqs[i])
        /\ products # <<>>
        /\ reqs[i].found = Undefined
        /\ IsNotFound(reqs[i])

\* Whether text starts, after any whitespace and one optional sign, with a
\* decimal digit: the texts that have an integer to parse.
HasIntegerPrefix(text) ==
    \E k \in DOMAIN text :
        /\ text[k] \in Digits
        /\ \/ \A j \in 1..(k - 1) : text[j] \in Whitespace
           \/ /\ k > 1
              /\ text[k - 1] \in {"-", "+"}
              /\ \A j \in 1..(k - 2) : text[j] \in Whitespace

\* C5: an id parameter that cannot be parsed as an integer (it has no
\* integer prefix) is answered 404 { error: "Product not found" }: neither a
\* 400 nor a product.
C5_UnparsableIdIs404 ==
    \A i \in DOMAIN reqs :
        LET r == reqs[i]
        IN  (r.route = IdRoute /\ Replied(r) /\ ~HasIntegerPrefix(r.param)) =>
              /\ r.code = 404
              /\ r.body = NotFoundBody

\* C5 witness: the parameter "b" was answered 404 over a non-empty collection.
C5_Witness ==
    \E i \in DOMAIN reqs :
        /\ reqs[i].route = IdRoute
        /\ reqs[i].param = <<"b">>
        /\ Replied(reqs[i])
        /\ products # <<>>
        /\ reqs[i].code = 404

\* C6: round trip.  Asking for the derived slug (the id) of a product of the
\* collection finds a product with that slug (id), and finds that very
\* product when the collection's slugs (ids) are pairwise distinct.
C6_RoundTrip ==
    \A k \in DOMAIN products : \A i \in DOMAIN reqs :
        LET p == products[k]
            r == reqs[i]
            distinctSlugs ==
                \A a, b \in DOMAIN products :
                    slugify(products[a].name) = slugify(products[b].name) => a = b
            distinctIds ==
                \A a, b \in DOMAIN products :
                    products[a].id = products[b].id => a = b
        IN  /\ (r.route = SlugRoute /\ Replied(r) /\ r.param = slugify(p.name)) =>
                 /\ r.code = 200
                 /\ r.body.product.slug = slugify(p.name)
                 /\ distinctSlugs => r.body = [product |-> ViewOf(p)]
            /\ (r.route = IdRoute /\ Replied(r) /\ parseInt(r.param) = Num(p.id)) =>
                 /\ r.code = 200
                 /\ r.body.product.id = p.id
                 /\ distinctIds => r.body = [product |-> ViewOf(p)]

\* C6 witness: the slug of the second of two products with distinct slugs
\* was asked for and the reply carries that second product.
C6_Witness ==
    \E i \in DOMAIN reqs :
        /\ reqs[i].route = SlugRoute
        /\ Replied(reqs[i])
        /\ Len(products) = 2
        /\ slugify(products[1].name) # slugify(products[2].name)
        /\ reqs[i].param = slugify(products[2].name)
        /\ reqs[i].body = [product |-> ViewOf(products[2])]

\* Every view a reply carries.
ViewsOf(r) ==
    IF r.route = ListRoute
    THEN {r.body.products[k] : k \in DOMAIN r.body.products}
    ELSE IF r.code = 200 THEN {r.body.product} ELSE {}

\* C7: every view of every reply carries the slug derived from the name it
\* carries, which is the name of a product of the collection; a successful
\* by-slug reply carries the requested slug.
C7_SlugIsDerived ==
    \A i \in DOMAIN reqs :
        LET r == reqs[i]
        IN  Replied(r) =>
              /\ \A v \in ViewsOf(r) :
                     /\ v.slug = slugify(v.name)
                     /\ \E k \in DOMAIN products :
                            \A f \in ProductFields : products[k][f] = v[f]
              /\ (r.route = SlugRoute /\ r.code = 200) =>
                     r.body.product.slug = r.param

\* C7 witness: a successful by-slug reply for a product whose name is not
\* its slug, after an earlier request was answered.
C7_Witness ==
    \E i \in DOMAIN reqs :
        /\ i > 1
        /\ Replied(reqs[1])
        /\ reqs[i].route = SlugRoute
        /\ Replied(reqs[i])
        /\ reqs[i].code = 200
        /\ reqs[i].body.product.name # reqs[i].param
        /\ reqs[i].body.product.slug = reqs[i].param

\* C8: the collection is the loaded fixture, product for product and field
\* for field, and no product carries a slug field.
C8_CollectionUnchanged ==
    /\ products = productsData
    /\ \A k \in DOMAIN products : DOMAIN products[k] = ProductFields

\* C8 witness: a found and a not-found request have both been answered over
\* a non-empty collection.
C8_Witness ==
    /\ products # <<>>
    /\ \E i, j \in DOMAIN reqs :
           /\ Replied(reqs[i]) /\ reqs[i].code = 200 /\ reqs[i].route # ListRoute
           /\ Replied(reqs[j]) /\ reqs[j].code = 404

\* The reply a request gets when it is the only request the server ever
\* serves over the loaded fixture.
ServedAlone(route, param) ==
    LET m == IF route = IdRoute
             THEN IdMatches(productsData, parseInt(param))
             ELSE SlugMatches(productsData, param)
    IN  IF route = ListRoute
        THEN [code |-> 200,
              body |-> [products |->
                          [k \in DOMAIN productsData |-> ViewOf(productsData[k])]]]
        ELSE IF m = {}
        THEN [code |-> 404, body |-> NotFoundBody]
        ELSE [code |-> 200, body |-> [product |-> ViewOf(productsData[Min(m)])]]

\* C9: however the handlers' steps interleave, every request is answered as
\* it would be were it served alone over the loaded fixture.
C9_Isolation ==
    \A i \in DOMAIN reqs :
        Replied(reqs[i]) =>
            [code |-> reqs[i].code, body |-> reqs[i].body]
                = ServedAlone(reqs[i].route, reqs[i].param)

\* C9 witness: a request was answered although it was looked up while an
\* earlier request of the same route and another parameter was between its
\* lookup and its reply.
C9_Witness ==
    \E i, j \in DOMAIN reqs :
        /\ i < j
        /\ reqs[i].route = reqs[j].route
        /\ reqs[i].param # reqs[j].param
        /\ reqs[i].pc = "looked"
        /\ Replied(reqs[j])
        /\ reqs[i].found # reqs[j].found

\* C10: two requests for the same route with the same parameter get the same
\* reply, whatever was served between them.
C10_Determinism ==
    \A i, j \in DOMAIN reqs :
        ( /\ Replied(reqs[i]) /\ Replied(reqs[j])
          /\ reqs[i].route = reqs[j].route
          /\ reqs[i].param = reqs[j].param ) =>
            /\ reqs[i].code = reqs[j].code
            /\ reqs[i].body = reqs[j].body

\* C10 witness: the same by-slug request was received twice and answered
\* twice, with a product.
C10_Witness ==
    \E i, j \in DOMAIN reqs :
        /\ i < j
        /\ reqs[i].route = SlugRoute /\ reqs[j].route = SlugRoute
        /\ reqs[i].param = reqs[j].param
        /\ Replied(reqs[i]) /\ Replied(reqs[j])
        /\ reqs[j].code = 200

----------------------------------------------------------------------------
(* Vocabulary of the properties of slugify.                                *)

Max(S) == CHOOSE x \in S : \A y \in S : x >= y

\* The characters of a string.
Chars(t) == {t[i] : i \in DOMAIN t}

AsciiLetters == LowerLetters \cup UpperLetters
Letters == AsciiLetters \cup NonAsciiLetters

\* Step 1: every upper-case letter replaced by its lower-case letter.
Lowercased(t) ==
    [i \in DOMAIN t |->
        IF t[i] = "A" THEN "a"
        ELSE IF t[i] = "B" THEN "b"
        ELSE IF t[i] = "É" THEN "é"
        ELSE t[i]]

\* Step 2: t from its first to its last character that is not whitespace.
Trimmed(t) ==
    LET solid == {i \in DOMAIN t : t[i] \notin Whitespace}
    IN  IF solid = {} THEN <<>> ELSE SubSeq(t, Min(solid), Max(solid))

\* Step 3: t without the characters that are not in kept.
Keeping(t, kept) == SelectSeq(t, LAMBDA c : c \in kept)

\* Steps 4 and 5: t with every run of characters of class replaced by one
\* hyphen: the first character of each run stays, as a hyphen, and the
\* other characters of the run go.
RunsAsHyphen(t, class) ==
    LET stay == {i \in DOMAIN t : t[i] \notin class \/ i = 1 \/ t[i - 1] \notin class}
        nth(k) == CHOOSE i \in stay : Cardinality({j \in stay : j < i}) = k - 1
    IN  [k \in 1..Cardinality(stay) |->
            IF t[nth(k)] \in class THEN "-" ELSE t[nth(k)]]

\* The five steps in order, step 3 keeping the characters of kept and the
\* whitespace.
FiveSteps(t, kept) ==
    RunsAsHyphen(
        RunsAsHyphen(Keeping(Trimmed(Lowercased(t)), kept \cup Whitespace),
                     Whitespace),
        {"-"})

----------------------------------------------------------------------------
(* Properties of slugify.                                                  *)

\* C11: idempotence.  slugify of a slug is that slug.
C11_Idempotent ==
    Len(slugs) = 2 => slugs[2] = slugs[1]

\* C11 witness: slugify was called again with a slug that differs from the
\* input and starts with a hyphen.
C11_Witness ==
    /\ Len(slugs) = 2
    /\ slugs[1] # slugText
    /\ slugs[1] # <<>>
    /\ Head(slugs[1]) = "-"
    /\ Len(slugs[1]) > 1

\* C12 as stated: the slug is the result of the five steps, step 3 removing
\* every character that is not a letter, digit, underscore or whitespace.
C12_StepsAsStated ==
    slugs # <<>> =>
        slugs[1] = FiveSteps(slugText, Letters \cup Digits \cup {"_"})

\* C12 amended: the slug is the result of the five steps, step 3 removing
\* every character that is not an ASCII letter, a digit, an underscore, a
\* hyphen or whitespace.
C12_StepsKeepingHyphens ==
    slugs # <<>> =>
        slugs[1] = FiveSteps(slugText, AsciiLetters \cup Digits \cup {"_", "-"})

\* C12 witness: the slug of an input with a hyphen and a punctuation
\* character next to whitespace, which is not what the steps as stated give.
C12_Witness ==
    /\ slugs # <<>>
    /\ {"-", "!"} \subseteq Chars(slugText)
    /\ Chars(Trimmed(slugText)) \cap Whitespace # {}
    /\ "-" \in Chars(slugs[1])
    /\ slugs[1] # FiveSteps(slugText, Letters \cup Digits \cup {"_"})

\* C13: hyphen collapse.  A slug has no two hyphens in a row, and a run of
\* hyphens between two word characters of the input is exactly one hyphen
\* of the slug, between the slug of what precedes and the slug of what
\* follows.
C13_HyphenCollapse ==
    slugs # <<>> =>
        LET out == slugs[1]
            n == Len(slugText)
        IN  /\ \A i \in 1..(Len(out) - 1) : ~(out[i] = "-" /\ out[i + 1] = "-")
            /\ \A i, j \in DOMAIN slugText :
                   ( /\ i + 1 < j
                     /\ slugText[i] \in WordChars
                     /\ slugText[j] \in WordChars
                     /\ \A k \in (i + 1)..(j - 1) : slugText[k] = "-" ) =>
                       out = slugify(SubSeq(slugText, 1, i)) \o <<"-">>
                                \o slugify(SubSeq(slugText, j, n))

\* C13 witness: the slug of "A--1" is "a-1".
C13_Witness ==
    /\ slugText = <<"A", "-", "-", "1">>
    /\ slugs = << <<"a", "-", "1">> >>

\* The characters that are not punctuation: letters, digits, the underscore,
\* whitespace and the hyphen.
NotPunctuation == Letters \cup Digits \cup {"_", "-"} \cup Whitespace

\* t with every punctuation character deleted.
Unpunctuated(t) == Keeping(t, NotPunctuation)

\* C14 as stated: the slug of a string is the slug of the string with its
\* punctuation deleted.
C14_PunctuationStrippedAsStated ==
    slugs # <<>> => slugs[1] = slugify(Unpunctuated(slugText))

\* Whether deleting the punctuation from the trimmed t leaves neither
\* leading nor trailing whitespace.
NoEdgeLeftBare(t) ==
    LET u == Unpunctuated(Trimmed(t))
    IN  u = <<>> \/ (u[1] \notin Whitespace /\ u[Len(u)] \notin Whitespace)

\* C14 amended: the slug of a string is the slug of the string with its
\* punctuation deleted, when deleting the punctuation from the trimmed
\* string leaves no leading or trailing whitespace.
C14_PunctuationStripped ==
    (slugs # <<>> /\ NoEdgeLeftBare(slugText)) =>
        slugs[1] = slugify(Unpunctuated(slugText))

\* C14 witness: the slug of "A! 1" is "a-1", the slug of "A 1".
C14_Witness ==
    /\ slugText = <<"A", "!", " ", "1">>
    /\ NoEdgeLeftBare(slugText)
    /\ slugs = << <<"a", "-", "1">> >>
    /\ slugify(<<"A", " ", "1">>) = slugs[1]

\* t with the character c put in after position i (before t when i = 0).
InsertAfter(t, i, c) == SubSeq(t, 1, i) \o <<c>> \o SubSeq(t, i + 1, Len(t))

\* t without its character at position i.
RemoveAt(t, i) == SubSeq(t, 1, i - 1) \o SubSeq(t, i + 1, Len(t))

\* Whitespace handling of the slug out of the string t, words being made of
\* the characters of wordChars:
\*  - whitespace added to or removed from either end of t leaves out as is;
\*  - a whitespace run of t made longer by one character, or shorter by one
\*    character when it has two, leaves out as is;
\*  - when t is words and whitespace only, out is the lower-cased words
\*    joined by single hyphens, with no hyphen at either end.
WhitespaceHandling(t, out, wordChars) ==
    /\ \A w \in Whitespace :
           /\ slugify(<<w>> \o t) = out
           /\ slugify(t \o <<w>>) = out
    /\ (t # <<>> /\ t[1] \in Whitespace) => slugify(Tail(t)) = out
    /\ (t # <<>> /\ t[Len(t)] \in Whitespace) => slugify(RemoveAt(t, Len(t))) = out
    /\ \A i \in DOMAIN t :
           t[i] \in Whitespace =>
               /\ \A w \in Whitespace : slugify(InsertAfter(t, i, w)) = out
               /\ (i < Len(t) /\ t[i + 1] \in Whitespace) =>
                      slugify(RemoveAt(t, i)) = out
    /\ Chars(t) \subseteq (wordChars \cup Whitespace) =>
           /\ out = RunsAsHyphen(Trimmed(Lowercased(t)), Whitespace)
           /\ out # <<>> => (out[1] # "-" /\ out[Len(out)] # "-")

\* C15 as stated: whitespace handling, words being made of letters, digits
\* and underscores.
C15_WhitespaceAsStated ==
    slugs # <<>> =>
        WhitespaceHandling(slugText, slugs[1], Letters \cup Digits \cup {"_"})

\* C15 amended: whitespace handling, words being made of ASCII letters,
\* digits and underscores.
C15_Whitespace ==
    slugs # <<>> =>
        WhitespaceHandling(slugText, slugs[1], AsciiLetters \cup Digits \cup {"_"})

\* C15 witness: the slug of " A\t1" (a space, A, a tab, 1) is "a-1".
C15_Witness ==
    /\ slugText = <<" ", "A", "\t", "1">>
    /\ slugs = << <<"a", "-", "1">> >>

\* C16: every character of a slug is a lower-case ASCII letter, a digit, an
\* underscore or a hyphen.
C16_UrlSafe ==
    slugs # <<>> =>
        Chars(slugs[1]) \subseteq (LowerLetters \cup Digits \cup {"_", "-"})

\* C16 witness: a non-empty slug of an input with an upper-case letter,
\* whitespace inside and a punctuation character.
C16_Witness ==
    /\ slugs # <<>>
    /\ slugs[1] # <<>>
    /\ Chars(slugText) \cap UpperLetters # {}
    /\ Chars(Trimmed(slugText)) \cap Whitespace # {}
    /\ "!" \in Chars(slugText)

\* C17: the slug of the empty string, of a string of whitespace and of a
\* string of punctuation is the empty string.
C17_EmptySlug ==
    ( /\ slugs # <<>>
      /\ \/ Chars(slugText) \subseteq Whitespace
         \/ Chars(slugText) \cap NotPunctuation = {} ) =>
        slugs[1] = <<>>

\* C17 witness: the slug of "!!!" is "".
C17_Witness ==
    /\ slugText = <<"!", "!", "!">>
    /\ slugs = << <<>> >>

\* C18: slugify has a value for every input, before and after it is called,
\* and the value is a string no longer than the input.
C18_Total ==
    /\ slugs = <<>> => DOMAIN slugify(slugText) = 1..Len(slugify(slugText))
    /\ slugs # <<>> =>
           /\ DOMAIN slugs[1] = 1..Len(slugs[1])
           /\ Len(slugs[1]) <= Len(slugText)

\* C18 witness: a non-empty slug shorter than its input.
C18_Witness ==
    /\ slugs # <<>>
    /\ slugs[1] # <<>>
    /\ Len(slugs[1]) < Len(slugText)

\* The letter of the other case, for a letter that has one.
SwapCase(c) ==
    CASE c = "a" -> "A" [] c = "A" -> "a"
      [] c = "b" -> "B" [] c = "B" -> "b"
      [] c = "é" -> "É" [] c = "É" -> "é"
      [] OTHER -> c

\* t with the case of the letters at the positions of P swapped.
FlipCase(t, P) == [i \in DOMAIN t |-> IF i \in P THEN SwapCase(t[i]) ELSE t[i]]

\* C19: case insensitivity.  Every string that differs from the input only
\* in the case of letters has the slug of the input.
C19_CaseInsensitive ==
    slugs # <<>> =>
        LET cased == {i \in DOMAIN slugText : SwapCase(slugText[i]) # slugText[i]}
        IN  \A P \in SUBSET cased :
                slugify(FlipCase(slugText, P)) = slugs[1]

\* C19 witness: the slug of "Aa A" is "aa-a", the slug of "aa a".
C19_Witness ==
    /\ slugText = <<"A", "a", " ", "A">>
    /\ slugs = << <<"a", "a", "-", "a">> >>
    /\ slugify(<<"a", "a", " ", "a">>) = slugs[1]

----------------------------------------------------------------------------
(* Properties of formatPrice.                                              *)

\* C20: formatPrice throws "Price cannot be negative", and returns nothing,
\* exactly when cents < 0.
C20_RejectsNegative ==
    priced.called =>
        /\ priced.threw <=> (priceCents < 0)
        /\ priced.threw =>
               /\ priced.message = "Price cannot be negative"
               /\ "value" \notin DOMAIN priced
        /\ ~priced.threw => "value" \in DOMAIN priced

\* C20 witness: formatPrice(-100) threw.
C20_Witness ==
    /\ priceCents = 0 - 100
    /\ priced.called
    /\ priced.threw

\* The characters of the decimal digits, in the order of their values.
DecimalDigits == <<"0", "1", "2", "3", "4", "5", "6", "7", "8", "9">>

\* Whether every character of t is a decimal digit.
AllDigits(t) ==
    \A i \in DOMAIN t : \E d \in DOMAIN DecimalDigits : DecimalDigits[d] = t[i]

\* The number a string of decimal digits denotes.
RECURSIVE DecimalValue(_)
DecimalValue(t) ==
    IF t = <<>> THEN 0
    ELSE 10 * DecimalValue(SubSeq(t, 1, Len(t) - 1))
           + (CHOOSE d \in 0..9 : DecimalDigits[d + 1] = t[Len(t)])

\* C21: for cents >= 0, formatPrice(cents) is "$", the decimal integer
\* cents div 100 without grouping separators or leading zeros, a dot, and
\* cents mod 100 as exactly two digits; 0 -> "$0.00", 99 -> "$0.99",
\* 1000 -> "$10.00", 123456 -> "$1234.56".
C21_PriceFormat ==
    (priced.called /\ priceCents >= 0) =>
        /\ ~priced.threw
        /\ LET s == priced.value
               whole == SubSeq(s, 2, Len(s) - 3)
               frac == SubSeq(s, Len(s) - 1, Len(s))
           IN  /\ Len(s) >= 5
               /\ s[1] = "$"
               /\ s[Len(s) - 2] = "."
               /\ AllDigits(whole) /\ AllDigits(frac)
               /\ Len(whole) > 1 => whole[1] # "0"
               /\ DecimalValue(whole) = priceCents \div 100
               /\ DecimalValue(frac) = priceCents % 100
        /\ priceCents = 0 => priced.value = <<"$", "0", ".", "0", "0">>
        /\ priceCents = 99 => priced.value = <<"$", "0", ".", "9", "9">>
        /\ priceCents = 1000 => priced.value = <<"$", "1", "0", ".", "0", "0">>
        /\ priceCents = 123456 =>
               priced.value = <<"$", "1", "2", "3", "4", ".", "5", "6">>

\* C21 witness: formatPrice(123456) returned "$1234.56".
C21_Witness ==
    /\ priceCents = 123456
    /\ priced.called
    /\ ~priced.threw
    /\ priced.value = <<"$", "1", "2", "3", "4", ".", "5", "6">>

----------------------------------------------------------------------------
(* Properties of the product detail page.                                  *)

\* The detail page is mounted.
Shown == page.route = DetailRoute

\* Fetch k has settled and its last handler has run.
Settled(k) == fetches[k].pc \in {"done", "caught"}

\* Fetch k was answered with a response that is not OK.
NonOk(k) == fetches[k].res # Null /\ ~fetches[k].res.ok

\* What the views show, whatever the page's state.
C22_ViewsWellFormed ==
    Shown =>
        /\ Render.view \in {"loading", "error", "product"}
        /\ Render.view = "loading" <=> page.loading
        /\ Render.view = "product" <=> "product" \in DOMAIN Render
        /\ Render.view = "error" <=> "message" \in DOMAIN Render
        /\ (\A k \in DOMAIN fetches : ~Settled(k)) => Render.view = "loading"
        /\ Render.view = "product" =>
               /\ Render.product = page.product
               /\ \E k \in DOMAIN fetches :
                      /\ fetches[k].pc = "done"
                      /\ fetches[k].res.ok
                      /\ "product" \in DOMAIN fetches[k].res.body
                      /\ page.product = fetches[k].res.body.product

\* The handler of the rejection of fetch k runs, for a response not OK.
C22_CatchNonOk(k) ==
    /\ fetches[k].pc = "rejected"
    /\ NonOk(k)
    /\ fetches'[k].pc = "caught"

\* C22: the detail page is always in exactly one of the loading, error and
\* product views.  It starts in the loading view and stays there until a
\* fetch has settled; it shows the product view only when a fetch returned
\* an OK response whose product is the one stored and shown; when the
\* rejection of a non-OK response is handled it shows the error view with
\* the message "Product not found"; the loading and error views show no
\* product.
C22_ThreeViews ==
    /\ []C22_ViewsWellFormed
    /\ [][\A k \in DOMAIN fetches :
             C22_CatchNonOk(k) =>
                 /\ Render'.view = "error"
                 /\ Render'.message = "Product not found"]_vars

\* C22 witness: a product is stored from an earlier fetch, and the page
\* shows the error view "Product not found" for a later fetch that was
\* answered 404.
C22_Witness ==
    /\ Shown
    /\ page.product \notin {Null, Undefined}
    /\ Len(fetches) = 2
    /\ fetches[1].pc = "done"
    /\ fetches[2].pc = "caught"
    /\ NonOk(2)
    /\ Render = [view |-> "error", message |-> "Product not found"]

\* Every fetch the page issued has settled and been handled, and the effect
\* of the last render has run.
AllSettled ==
    /\ Shown
    /\ page.deps = [slug |-> page.slug]
    /\ fetches # <<>>
    /\ \A k \in DOMAIN fetches : Settled(k)

C24_LeavesLoading ==
    /\ Shown ~> (Shown /\ Render.view # "loading")
    /\ [][\A k \in DOMAIN fetches :
             (fetches[k].pc \in {"parsing", "rejected"}
                 /\ fetches'[k].pc \in {"done", "caught"})
                 => ~page'.loading]_vars

\* C24 witness: the page left the loading view through the failure path.
C24_Witness ==
    /\ Shown
    /\ Len(fetches) = 1
    /\ fetches[1].pc = "caught"
    /\ ~page.loading
    /\ Render.view = "error"

\* The slug of the k-th listed product is the slug of no other listed product.
UniqueSlug(k) ==
    \A j \in DOMAIN ListedProducts :
        ListedProducts[j].slug = ListedProducts[k].slug => j = k

\* The browser went from the home page to the address of the details link
\* of the k-th listed product, and nowhere else.
Followed(k) == page.history = <<HomeHref, DetailsHref(ListedProducts[k].slug)>>

\* The requests the page sent and the server received are for the slug.
RequestsFor(slug) ==
    /\ \A f \in DOMAIN fetches : fetches[f].slug = slug
    /\ \A i \in DOMAIN reqs : reqs[i].route = SlugRoute /\ reqs[i].param = slug

\* The network failed fetch f.
NetworkFailed(f) == fetches[f].err = [message |-> "Failed to fetch"]

\* C25 as stated: for every listed product whose slug is unique, following
\* its details link mounts the detail page, which requests
\* /products/by-slug/<slug> with that slug and, once the fetch has settled,
\* displays that product.
C25_NavigationAsStated ==
    \A k \in DOMAIN ListedProducts :
        (UniqueSlug(k) /\ Followed(k)) =>
            /\ Shown
            /\ RequestsFor(ListedProducts[k].slug)
            /\ (fetches # <<>> /\ Settled(1)) =>
                   Render = [view |-> "product", product |-> ListedProducts[k]]

\* C25: for every listed product whose slug is unique and not empty,
\* following its details link mounts the detail page, which requests
\* /products/by-slug/<slug> with that slug and, once the fetch has settled
\* without a failure of the network, displays that product.
C25_Navigation ==
    \A k \in DOMAIN ListedProducts :
        (UniqueSlug(k) /\ ListedProducts[k].slug # <<>> /\ Followed(k)) =>
            /\ Shown
            /\ page.slug = ListedProducts[k].slug
            /\ RequestsFor(ListedProducts[k].slug)
            /\ (fetches # <<>> /\ Settled(1) /\ ~NetworkFailed(1)) =>
                   Render = [view |-> "product", product |-> ListedProducts[k]]

\* C25 witness: the link of the second of two products was followed and the
\* page displays that product.
C25_Witness ==
    /\ Len(products) = 2
    /\ UniqueSlug(2)
    /\ Followed(2)
    /\ fetches # <<>>
    /\ Settled(1)
    /\ Render = [view |-> "product", product |-> ListedProducts[2]]
    /\ Render.product.id = products[2].id

----------------------------------------------------------------------------
(* Further properties of the lookups.                                      *)

\* Whether text holds an upper-case letter, a whitespace character, a
\* punctuation character or two hyphens in a row.
Unnormalised(text) ==
    \/ \E i \in DOMAIN text :
           text[i] \in UpperLetters \cup Whitespace \/ text[i] \notin NotPunctuation
    \/ \E i \in DOMAIN text :
           i < Len(text) /\ text[i] = "-" /\ text[i + 1] = "-"

\* C26: getBySlug does not normalise its argument.  An argument for which a
\* product is found is a fixed point of deriveSlug; an argument with an
\* upper-case letter, whitespace, punctuation or two hyphens in a row finds
\* nothing and is answered 404, also when its slug is the slug of a product.
C26_NoNormalisation ==
    \A i \in DOMAIN reqs :
        LET r == reqs[i]
        IN  (r.route = SlugRoute /\ Looked(r)) =>
              /\ r.found # Undefined => slugify(r.param) = r.param
              /\ Unnormalised(r.param) =>
                    /\ r.found = Undefined
                    /\ Replied(r) => IsNotFound(r)

\* C26 witness: "Ab", whose slug "ab" is the slug of a product of the
\* collection, was answered 404.
C26_Witness ==
    \E i \in DOMAIN reqs :
        /\ reqs[i].route = SlugRoute
        /\ reqs[i].param = <<"A", "b">>
        /\ SlugMatches(products, slugify(reqs[i].param)) # {}
        /\ Replied(reqs[i])
        /\ IsNotFound(reqs[i])

\* The integer text starts with, for a text that has an integer prefix:
\* the digits after the whitespace and the sign, up to the first character
\* that is no digit.
IntegerPrefix(text) ==
    LET first == Min({k \in DOMAIN text : text[k] \in Digits})
        last == Max({e \in first..Len(text) :
                       \A j \in first..e : text[j] \in Digits})
        value == DecimalValue(SubSeq(text, first, last))
    IN  IF first > 1 /\ text[first - 1] = "-" THEN 0 - value ELSE value

\* C27: GET /products/:id resolves its parameter by its leading base-10
\* integer: a parameter made of whitespace, an integer and any trailing
\* characters is answered as the integer alone is, 200 with the first product
\* of that id when there is one and 404 when there is none; a parameter
\* without an integer prefix finds nothing.
C27_IntegerPrefix ==
    \A i \in DOMAIN reqs :
        LET r == reqs[i]
        IN  (r.route = IdRoute /\ Replied(r)) =>
              IF HasIntegerPrefix(r.param)
              THEN LET m == {k \in DOMAIN products :
                               products[k].id = IntegerPrefix(r.param)}
                   IN  IF m # {}
                       THEN IsProduct(r, products[Min(m)])
                       ELSE IsNotFound(r)
              ELSE IsNotFound(r)

\* C27 witness: the parameter "2b" was answered 200 with the product of id 2.
C27_Witness ==
    \E i \in DOMAIN reqs :
        /\ reqs[i].route = IdRoute
        /\ reqs[i].param = <<"2", "b">>
        /\ Replied(reqs[i])
        /\ reqs[i].code = 200
        /\ reqs[i].body.product.id = 2

----------------------------------------------------------------------------
(* Properties of the stable-builds verification script.                    *)

\* The script has exited.
Exited == script.pc = "exited"

\* What the summary and the exit status say once the script has exited.
C28_Verdict ==
    /\ ~Exited => script.status = Running /\ script.summary = {}
    /\ Exited =>
         /\ script.status \in {0, 1}
         /\ script.FAILED = script.out.fail
         /\ script.status = 0 <=> script.out.fail = 0
         /\ script.status = 0 <=> "Stable Docker Builds: PASSED" \in script.summary
         /\ script.status = 1 <=> "Stable Docker Builds: FAILED" \in script.summary

\* What a step of the script does to the two counters.
C28_Counting ==
    /\ script'.PASSED - script.PASSED = script'.out.pass - script.out.pass
    /\ script'.FAILED - script.FAILED = script'.out.fail - script.out.fail
    /\ script'.PASSED - script.PASSED \in {0, 1}
    /\ script'.FAILED - script.FAILED \in {0, 1}
    /\ script'.out.warn >= script.out.warn

\* C28: the script exits with status 0 and prints "Stable Docker Builds:
\* PASSED" exactly when fail() was never called (FAILED = 0), and exits with
\* status 1 otherwise, however many warnings were printed; PASSED and FAILED
\* never decrease and grow by one with each pass line and each fail line.
C28_ExitStatus == []C28_Verdict /\ [][C28_Counting]_vars

\* A run with passes and warnings and no failure has exited with status 0.
C28_Witness ==
    /\ Exited
    /\ script.status = 0
    /\ script.out.warn > 0
    /\ script.PASSED > 0

\* C29: the script reports success (exit status 0, "Stable (same source ->
\* same image)") only if the two from-scratch builds both completed and the
\* frontend and backend fingerprints of the first build were compared with
\* those of the second and found identical.
C29_SuccessMeansCompared ==
    (/\ script.status = 0
     /\ "Stable (same source -> same image)" \in script.summary)
    => /\ script.build1 = "built"
       /\ script.build2 = "built"
       /\ script.FRONTEND_MATCH = "true"
       /\ script.BACKEND_MATCH = "true"
       /\ script.FRONTEND_BUILD1_FINGERPRINT = script.FRONTEND_BUILD2_FINGERPRINT
       /\ script.BACKEND_BUILD1_FINGERPRINT = script.BACKEND_BUILD2_FINGERPRINT

\* The ten tests of the script.
TenTests == 1..10

C30_TestsBegun ==
    script.pc \in {"summary", "exited"} =>
        /\ script.tests = TenTests
        /\ script.skipped \subseteq {7, 10}
        /\ 7 \in script.skipped <=> script.FRONTEND_IMAGE = ""
        /\ 10 \in script.skipped <=> script.build2 = "failed"

====
